---- MODULE Spec2Model ----
(***************************************************************************)
(* Local Messenger: the in-process room / presence / broadcast manager.    *)
(*                                                                         *)
(* Spec       models src/server.js (in-memory rooms and users maps).       *)
(* FairSpec   is Spec with the event loop's progress: the clock advances   *)
(*            and emitted events are handed over.                          *)
(* SpecLocal  models the local-mode server of src/server/index.js          *)
(*            (lines 155-338), which keeps no room table of its own and    *)
(*            fans out on the transport's broadcast channels only.         *)
(*                                                                         *)
(* socket.io semantics used by both: socket.join(x)/socket.leave(x)        *)
(* subscribe/unsubscribe the socket to channel x; io.to(x).emit reaches    *)
(* every subscriber of x; socket.to(x).emit reaches every subscriber of x  *)
(* but the socket itself; socket.emit reaches the socket only; a socket    *)
(* has left every channel before its 'disconnect' handler runs.            *)
(***************************************************************************)
EXTENDS Integers, Sequences, FiniteSets, TLC

\* The last clock reading (Date.now(), in ms since start) the model explores.
MaxTime == 1

\* Connection (socket) ids.
Conns == {"c1", "c2"}

NoConn == "none"
NoRoom == -1

\* Room ids: `room_${Date.now()}` is identified with the clock reading.
RoomIds == 0..MaxTime

\* A room id that names no room, ever (the clock never reads it).
UnknownRoom == MaxTime + 1

\* Channel ids of the transport: any id a client may name.
ChanIds == RoomIds \cup {UnknownRoom}

\* The `name` field of a create-room payload: absent (undefined), or a string.
NoName == "undefined"
Names == {NoName, "Team"}

\* The create-room payloads {name, description} of src/server.js: one with
\* neither field, one with both.
CreatePayloads ==
    {[name |-> NoName, description |-> NoName], [name |-> "Team", description |-> "desc"]}

\* Message contents, as sequences of characters.
Contents == {<<>>, <<" ">>, <<"h", "i">>}

\* The identities a client may present in the handshake of the local-mode
\* server, and in the `user` field of its send-message payload.
UserIds == {"u1", "u2"}

\* How many send-message handlers of the local-mode server may be suspended
\* at their `await` at once.
MaxPending == 1

VARIABLES
    users,      \* server.js `users`: connection id -> registry entry
    rooms,      \* server.js `rooms`: room id -> room (insertion order = id order)
    chan,       \* transport channels: channel id -> subscribed sockets
    now,        \* Date.now()
    last,       \* the handler that ran last (its event and payload)
    emitted,    \* the events that handler emitted, in emission order
    sockets,    \* index.js (local mode): connected socket -> userId, username
    supabase,   \* index.js (local mode): whether the persistence client exists
    pending,    \* index.js (local mode): send-message handlers at their await
    accepted,   \* history: the new-message broadcasts of server.js so far
    sendLog     \* history: index.js send-message handler runs, in order of start

vars == <<users, rooms, chan, now, last, emitted, sockets, supabase, pending, accepted,
          sendLog>>

\* The state of the server that a specification does not run.
localVars == <<sockets, supabase, pending>>
mainVars == <<users, rooms, now>>

----------------------------------------------------------------------------
\* Helpers

\* An outbound event; `to` is the set of connections it is delivered to.
BaseEv ==
    [ev |-> "", to |-> {}, room |-> NoRoom, user |-> NoConn, userCount |-> 0,
     content |-> <<>>, name |-> "", msgId |-> NoRoom, list |-> <<>>,
     description |-> "", members |-> {}]

BaseAct ==
    [op |-> "", conn |-> NoConn, room |-> NoRoom, content |-> <<>>, name |-> "",
     user |-> NoConn]

\* No handler's events are pending: the event loop is between two handlers.
Idle == last = BaseAct

\* socket.emit(...)
SocketEmit(c) == {c}

\* io.to(roomId).emit(...)
IoTo(roomId) == chan[roomId]

\* socket.to(roomId).emit(...), evaluated on channel table ch
SocketTo(ch, c, roomId) == ch[roomId] \ {c}

\* `user_${socket.id.substring(0, 6)}`
Username(c) == <<"user", c>>

\* `room_${Date.now()}`
NewRoomId == now

\* `msg_${Date.now()}`
NewMsgId == now

\* data.name || 'New Room' (JavaScript truthiness: undefined and "" are falsy)
RoomName(name) == IF name \in {NoName, ""} THEN "New Room" ELSE name

\* data.description || 'Chat room'
RoomDescription(d) == IF d \in {NoName, ""} THEN "Chat room" ELSE d

\* Every room id, in ascending order.
IdsAscending == [i \in 1..(MaxTime + 1) |-> i - 1]

\* Array.from(rooms.values()): Map iteration is in insertion order, and keys
\* are clock readings, so insertion order is ascending id order.
RoomOrder(rs) == SelectSeq(IdsAscending, LAMBDA r : r \in DOMAIN rs)

----------------------------------------------------------------------------
\* src/server.js

Init ==
    /\ users = << >>
    /\ rooms = << >>
    /\ chan = [r \in ChanIds |-> {}]
    /\ now = 0
    /\ last = BaseAct
    /\ emitted = <<>>
    /\ sockets = << >>
    /\ supabase = FALSE
    /\ pending = {}
    /\ accepted = <<>>
    /\ sendLog = <<>>

\* io.on('connection')
Connect(c) ==
    /\ Idle
    /\ c \notin DOMAIN users
    /\ users' = [d \in DOMAIN users \cup {c} |->
                    IF d = c THEN [id |-> c, username |-> Username(c), currentRoom |-> NoRoom]
                    ELSE users[d]]
    /\ emitted' = <<[BaseEv EXCEPT !.ev = "welcome", !.to = SocketEmit(c), !.user = c]>>
    /\ last' = [BaseAct EXCEPT !.op = "connect", !.conn = c]
    /\ UNCHANGED <<rooms, chan, now, localVars, accepted, sendLog>>

\* Mutant of RoomSummary: the count of the channel's subscribers instead of
\* room.users.size.
RoomSummaryFromChannel(rs, r) ==
    [id |-> r, name |-> rs[r].name, description |-> rs[r].description,
     userCount |-> Cardinality(chan[r]), createdAt |-> rs[r].createdAt]

\* Mutant of RoomSummary: the room object itself is listed, member set and all.
RoomSummaryWithMembers(rs, r) ==
    [id |-> r, name |-> rs[r].name, description |-> rs[r].description,
     userCount |-> Cardinality(rs[r].users), createdAt |-> rs[r].createdAt,
     users |-> rs[r].users]

\* rooms.values().map(room => ({id, name, description, userCount: room.users.size,
\* createdAt}))
RoomSummary(rs, r) ==
    [id |-> r, name |-> rs[r].name, description |-> rs[r].description,
     userCount |-> Cardinality(rs[r].users), createdAt |-> rs[r].createdAt]

RoomList(rs) == [i \in 1..Len(RoomOrder(rs)) |-> RoomSummary(rs, RoomOrder(rs)[i])]

\* socket.on('get-rooms')
GetRooms(c) ==
    /\ Idle
    /\ c \in DOMAIN users
    /\ emitted' = <<[BaseEv EXCEPT !.ev = "rooms-list", !.to = SocketEmit(c),
                                   !.list = RoomList(rooms)]>>
    /\ last' = [BaseAct EXCEPT !.op = "get-rooms", !.conn = c]
    /\ UNCHANGED <<users, rooms, chan, now, localVars, accepted, sendLog>>

\* rooms.set(roomId, room): insert, or replace the entry under an existing key
MapSet(rs, r, room) == [q \in DOMAIN rs \cup {r} |-> IF q = r THEN room ELSE rs[q]]

\* socket.on('create-room').  The room's createdBy (socket.id) is written and
\* never read by any handler; the model does not keep it.
CreateRoom(c, name, description) ==
    /\ Idle
    /\ c \in DOMAIN users
    /\ LET roomId == NewRoomId
           room == [name |-> RoomName(name), description |-> RoomDescription(description),
                    createdAt |-> now, users |-> {c}]
       IN /\ rooms' = MapSet(rooms, roomId, room)
          /\ chan' = [chan EXCEPT ![roomId] = @ \cup {c}]
          /\ emitted' = <<[BaseEv EXCEPT !.ev = "room-created", !.to = SocketEmit(c),
                                         !.room = roomId, !.name = room.name,
                                         !.description = room.description]>>
          /\ last' = [BaseAct EXCEPT !.op = "create-room", !.conn = c,
                                     !.room = roomId, !.name = name]
    /\ UNCHANGED <<users, now, localVars, accepted, sendLog>>

\* Mutant of UsersAdd: a toggle, which removes a connection that joins again.
UsersToggle(rs, r, c) ==
    [rs EXCEPT ![r].users = IF c \in @ THEN @ \ {c} ELSE @ \cup {c}]

\* Mutant of UsersAdd: a connection is in one room at a time, and joining a
\* room takes it out of every other.
UsersMove(rs, r, c) ==
    [q \in DOMAIN rs |->
        [rs[q] EXCEPT !.users = IF q = r THEN @ \cup {c} ELSE @ \ {c}]]

\* room.users.add(socket.id)
UsersAdd(rs, r, c) == [rs EXCEPT ![r].users = @ \cup {c}]

\* room.users.delete(socket.id)
UsersDelete(rs, r, c) == [rs EXCEPT ![r].users = @ \ {c}]

\* socket.on('join-room')
JoinRoom(c, roomId) ==
    /\ Idle
    /\ c \in DOMAIN users
    /\ last' = [BaseAct EXCEPT !.op = "join-room", !.conn = c, !.room = roomId]
    /\ IF roomId \in DOMAIN rooms
       THEN /\ rooms' = UsersAdd(rooms, roomId, c)
            /\ chan' = [chan EXCEPT ![roomId] = @ \cup {c}]
            /\ users' = [users EXCEPT ![c].currentRoom = roomId]
            /\ emitted' =
                 << [BaseEv EXCEPT !.ev = "room-joined", !.to = SocketEmit(c),
                                   !.room = roomId, !.name = rooms'[roomId].name,
                                   !.description = rooms'[roomId].description,
                                   !.userCount = Cardinality(rooms'[roomId].users),
                                   !.members = rooms'[roomId].users],
                    [BaseEv EXCEPT !.ev = "user-joined", !.to = SocketTo(chan', c, roomId),
                                   !.room = roomId, !.user = c,
                                   !.userCount = Cardinality(rooms'[roomId].users)] >>
       ELSE /\ emitted' = <<[BaseEv EXCEPT !.ev = "error", !.to = SocketEmit(c),
                                           !.name = "Room not found"]>>
            /\ UNCHANGED <<users, rooms, chan>>
    /\ UNCHANGED <<now, localVars, accepted, sendLog>>

\* socket.on('send-message')
SendMessage(c, roomId, content) ==
    /\ Idle
    /\ c \in DOMAIN users
    /\ last' = [BaseAct EXCEPT !.op = "send-message", !.conn = c, !.room = roomId,
                               !.content = content]
    /\ emitted' =
         IF roomId \notin DOMAIN rooms \/ c \notin DOMAIN users
         THEN <<[BaseEv EXCEPT !.ev = "error", !.to = SocketEmit(c),
                               !.name = "Room or user not found"]>>
         ELSE IF c \notin rooms[roomId].users
         THEN <<[BaseEv EXCEPT !.ev = "error", !.to = SocketEmit(c),
                               !.name = "Not in this room"]>>
         ELSE <<[BaseEv EXCEPT !.ev = "new-message", !.to = IoTo(roomId),
                               !.room = roomId, !.user = users[c].id,
                               !.content = content, !.msgId = NewMsgId]>>
    /\ UNCHANGED <<users, rooms, chan, now, localVars>>

\* socket.on('leave-room')
LeaveRoom(c, roomId) ==
    /\ Idle
    /\ c \in DOMAIN users
    /\ last' = [BaseAct EXCEPT !.op = "leave-room", !.conn = c, !.room = roomId]
    /\ IF roomId \in DOMAIN rooms /\ c \in DOMAIN users
       THEN /\ rooms' = UsersDelete(rooms, roomId, c)
            /\ chan' = [chan EXCEPT ![roomId] = @ \ {c}]
            /\ users' = [users EXCEPT ![c].currentRoom = NoRoom]
            /\ emitted' =
                 <<[BaseEv EXCEPT !.ev = "user-left", !.to = SocketTo(chan', c, roomId),
                                  !.room = roomId, !.user = users[c].id,
                                  !.userCount = Cardinality(rooms'[roomId].users)]>>
       ELSE /\ emitted' = <<>>
            /\ UNCHANGED <<users, rooms, chan>>
    /\ UNCHANGED <<now, localVars, accepted, sendLog>>

\* The rooms the disconnect handler's rooms.forEach finds socket.id in, in
\* iteration order.
RoomsOf(rs, c) == SelectSeq(RoomOrder(rs), LAMBDA r : c \in rs[r].users)

\* Mutant of RemoveFromAllRooms: a room that the removal leaves empty is
\* deleted at once.
RemoveAndDeleteEmpty(rs, c) ==
    [r \in {q \in DOMAIN rs : rs[q].users \ {c} # {}} |->
        [rs[r] EXCEPT !.users = @ \ {c}]]

\* Mutant of RemoveFromAllRooms: only the room recorded as the connection's
\* currentRoom is cleaned.
RemoveFromCurrentRoom(rs, c) ==
    [r \in DOMAIN rs |->
        IF users[c].currentRoom = r THEN [rs[r] EXCEPT !.users = @ \ {c}] ELSE rs[r]]

\* rooms.forEach(... room.users.delete(socket.id) ...)
RemoveFromAllRooms(rs, c) == [r \in DOMAIN rs |-> [rs[r] EXCEPT !.users = @ \ {c}]]

\* The transport's cleanup that precedes the 'disconnect' event: leaveAll().
LeaveAll(ch, c) == [x \in DOMAIN ch |-> ch[x] \ {c}]

\* socket.on('disconnect'); room.users.size is read from the room object the
\* forEach callback holds, after its delete.
Disconnect(c) ==
    /\ Idle
    /\ c \in DOMAIN users
    /\ last' = [BaseAct EXCEPT !.op = "disconnect", !.conn = c]
    /\ chan' = LeaveAll(chan, c)
    /\ rooms' = RemoveFromAllRooms(rooms, c)
    /\ emitted' =
         LET left == RoomsOf(rooms, c)
         IN [i \in 1..Len(left) |->
               [BaseEv EXCEPT !.ev = "user-left", !.to = SocketTo(chan', c, left[i]),
                              !.room = left[i], !.user = c,
                              !.userCount = Cardinality(rooms[left[i]].users \ {c})]]
    /\ users' = [d \in DOMAIN users \ {c} |-> users[d]]
    /\ UNCHANGED <<now, localVars, accepted, sendLog>>

\* The room ids a client names in join-room, send-message and leave-room:
\* every existing room's id, and one id that names no room.
RoomIdInputs == DOMAIN rooms \cup {UnknownRoom}

\* The clock advances between handlers.
Tick ==
    /\ Idle
    /\ now < MaxTime
    /\ now' = now + 1
    /\ UNCHANGED <<users, rooms, chan, last, emitted, localVars, accepted, sendLog>>

\* The transport hands the emitted events to their recipients; the event
\* loop then takes the next inbound event.
Deliver ==
    /\ ~Idle
    /\ last' = BaseAct
    /\ emitted' = <<>>
    /\ UNCHANGED <<users, rooms, chan, now, localVars, accepted, sendLog>>

Next ==
    \/ \E c \in Conns : Connect(c)
    \/ \E c \in Conns : GetRooms(c)
    \/ \E c \in Conns, data \in CreatePayloads : CreateRoom(c, data.name, data.description)
    \/ \E c \in Conns, r \in RoomIdInputs : JoinRoom(c, r)
    \/ \E c \in Conns, r \in RoomIdInputs, content \in Contents :
          SendMessage(c, r, content) /\ UNCHANGED <<accepted, sendLog>>
    \/ \E c \in Conns, r \in RoomIdInputs : LeaveRoom(c, r)
    \/ \E c \in Conns : Disconnect(c)
    \/ Tick
    \/ Deliver

Spec == Init /\ [][Next]_vars

----------------------------------------------------------------------------
\* src/server/index.js, the local-mode server (lines 155-338).  It keeps no
\* room table: a room is the transport channel of its id.

\* 'anonymous_' + Math.random().toString(36).substr(2, 9)
AnonymousId(c) == "anonymous_" \o c

LocalInit ==
    /\ users = << >>
    /\ rooms = << >>
    /\ chan = [r \in ChanIds |-> {}]
    /\ now = 0
    /\ last = BaseAct
    /\ emitted = <<>>
    /\ sockets = << >>
    /\ supabase \in BOOLEAN
    /\ pending = {}
    /\ accepted = <<>>
    /\ sendLog = <<>>

\* io.use(...) and io.on('connection'); auth is the handshake's userId, or
\* NoConn when the handshake carries none.
LocalConnect(c, auth) ==
    /\ Idle
    /\ c \notin DOMAIN sockets
    /\ LET identity == IF auth # NoConn
                       THEN [userId |-> auth, username |-> auth]
                       ELSE [userId |-> AnonymousId(c), username |-> "Anonymous"]
       IN /\ sockets' = [d \in DOMAIN sockets \cup {c} |->
                            IF d = c THEN identity ELSE sockets[d]]
          /\ emitted' = <<[BaseEv EXCEPT !.ev = "welcome", !.to = SocketEmit(c),
                                         !.user = identity.userId]>>
    /\ last' = [BaseAct EXCEPT !.op = "connect", !.conn = c, !.user = auth]
    /\ UNCHANGED <<chan, supabase, pending, mainVars, accepted, sendLog>>

\* socket.on('create-room'); id is 'room_' + Math.random()...
LocalCreateRoom(c, name, id) ==
    /\ Idle
    /\ c \in DOMAIN sockets
    /\ emitted' = <<[BaseEv EXCEPT !.ev = "room-created", !.to = SocketEmit(c),
                                   !.room = id, !.name = RoomName(name),
                                   !.user = sockets[c].userId]>>
    /\ chan' = [chan EXCEPT ![id] = @ \cup {c}]
    /\ last' = [BaseAct EXCEPT !.op = "create-room", !.conn = c, !.room = id,
                               !.name = name]
    /\ UNCHANGED <<sockets, supabase, pending, mainVars, accepted, sendLog>>

\* data.user?.id || socket.userId, and data.user || {id: socket.userId, ...}
LocalSender(c, dataUser) == IF dataUser # NoConn THEN dataUser ELSE sockets[c].userId

\* io.to(data.roomId).emit('new-message', message)
LocalBroadcast(m) ==
    <<[BaseEv EXCEPT !.ev = "new-message", !.to = IoTo(m.room), !.room = m.room,
                     !.user = m.user, !.content = m.content]>>

\* socket.on('send-message'): up to the await when the persistence client
\* exists, to the end otherwise.
LocalSendMessage(c, roomId, content, dataUser) ==
    /\ Idle
    /\ c \in DOMAIN sockets
    /\ LET m == [conn |-> c, room |-> roomId, content |-> content,
                 user |-> LocalSender(c, dataUser)]
       IN IF supabase
          THEN /\ Cardinality(pending \cup {m}) <= MaxPending
               /\ pending' = pending \cup {m}
               /\ emitted' = <<>>
               /\ last' = [BaseAct EXCEPT !.op = "send-message-await", !.conn = c,
                                          !.room = roomId, !.content = content,
                                          !.user = dataUser]
          ELSE /\ emitted' = LocalBroadcast(m)
               /\ last' = [BaseAct EXCEPT !.op = "send-message", !.conn = c,
                                          !.room = roomId, !.content = content,
                                          !.user = dataUser]
               /\ UNCHANGED pending
    /\ UNCHANGED <<chan, sockets, supabase, mainVars, accepted, sendLog>>

\* The outcomes of `await supabase.from('messages').insert(...)`.
PersistOutcomes == {"ok", "error", "throw"}

\* socket.on('send-message'), resumed after the await: an insert that
\* resolves (with or without an error) is followed by the broadcast, one
\* that rejects by the catch block's error event to the sender.
LocalPersistDone(m, outcome) ==
    /\ Idle
    /\ m \in pending
    /\ pending' = pending \ {m}
    /\ emitted' = IF outcome = "throw"
                  THEN <<[BaseEv EXCEPT !.ev = "error",
                                        !.to = SocketEmit(m.conn) \cap DOMAIN sockets,
                                        !.name = "Failed to send message"]>>
                  ELSE LocalBroadcast(m)
    /\ last' = [BaseAct EXCEPT !.op = "send-message", !.conn = m.conn,
                               !.room = m.room, !.content = m.content,
                               !.name = outcome]
    /\ UNCHANGED <<chan, sockets, supabase, mainVars, accepted, sendLog>>

\* socket.on('disconnect'): the handler only logs; the transport has removed
\* the socket from every channel.
LocalDisconnect(c) ==
    /\ Idle
    /\ c \in DOMAIN sockets
    /\ chan' = LeaveAll(chan, c)
    /\ sockets' = [d \in DOMAIN sockets \ {c} |-> sockets[d]]
    /\ emitted' = <<>>
    /\ last' = [BaseAct EXCEPT !.op = "disconnect", !.conn = c]
    /\ UNCHANGED <<supabase, pending, mainVars, accepted, sendLog>>

LocalNext ==
    \/ \E c \in Conns, auth \in UserIds \cup {NoConn} : LocalConnect(c, auth)
    \/ \E c \in Conns, name \in Names, id \in RoomIds : LocalCreateRoom(c, name, id)
    \/ \E c \in Conns, r \in ChanIds, content \in Contents, u \in UserIds \cup {NoConn} :
          LocalSendMessage(c, r, content, u)
    \/ \E m \in pending, outcome \in PersistOutcomes : LocalPersistDone(m, outcome)
    \/ \E c \in Conns : LocalDisconnect(c)
    \/ Deliver

SpecLocal == LocalInit /\ [][LocalNext]_vars

----------------------------------------------------------------------------
\* src/server/index.js, the authenticated server (lines 1-153).  Rooms and
\* their members are rows of the external store: `rooms` stands for the
\* tables rooms and room_members, a room's users being user ids here.

AuthInit ==
    /\ users = << >>
    /\ rooms = << >>
    /\ chan = [r \in ChanIds |-> {}]
    /\ now = 0
    /\ last = BaseAct
    /\ emitted = <<>>
    /\ sockets = << >>
    /\ supabase = TRUE
    /\ pending = {}
    /\ accepted = <<>>
    /\ sendLog = <<>>

\* io.use(...) and io.on('connection'): token is the user the handshake's
\* token resolves to, or NoConn when the handshake carries no token (userId
\* stays undefined).  A token that fails to resolve refuses the connection.
AuthConnect(c, token) ==
    /\ Idle
    /\ c \notin DOMAIN sockets
    /\ sockets' = [d \in DOMAIN sockets \cup {c} |->
                      IF d = c THEN [userId |-> token, username |-> token] ELSE sockets[d]]
    /\ emitted' = <<>>
    /\ last' = [BaseAct EXCEPT !.op = "connect", !.conn = c, !.user = token]
    /\ UNCHANGED <<chan, supabase, pending, mainVars, accepted, sendLog>>

\* getUserRooms(userId): the rooms whose member rows name the user.
getUserRooms(userId) == {r \in DOMAIN rooms : userId \in rooms[r].users}

\* socket.on('join-rooms')
AuthJoinRooms(c) ==
    /\ Idle
    /\ c \in DOMAIN sockets
    /\ chan' = [r \in ChanIds |->
                  IF r \in getUserRooms(sockets[c].userId) THEN chan[r] \cup {c} ELSE chan[r]]
    /\ emitted' = <<>>
    /\ last' = [BaseAct EXCEPT !.op = "join-rooms", !.conn = c]
    /\ UNCHANGED <<sockets, supabase, pending, mainVars, accepted, sendLog>>

\* socket.on('create-room'): stored is whether the insert into rooms returned
\* a row, id the id the store gave it, member whether the insert into
\* room_members (whose result the handler ignores) succeeded.
AuthCreateRoom(c, data, stored, id, member) ==
    /\ Idle
    /\ c \in DOMAIN sockets
    /\ id \notin DOMAIN rooms
    /\ last' = [BaseAct EXCEPT !.op = "create-room", !.conn = c, !.room = id,
                               !.name = data.name]
    /\ IF stored
       THEN /\ rooms' = MapSet(rooms, id,
                           [name |-> data.name, description |-> data.description,
                            createdAt |-> now,
                            users |-> IF member THEN {sockets[c].userId} ELSE {}])
            /\ emitted' = <<[BaseEv EXCEPT !.ev = "room-created", !.to = SocketEmit(c),
                                           !.room = id, !.name = data.name,
                                           !.description = data.description,
                                           !.user = sockets[c].userId]>>
       ELSE /\ emitted' = <<[BaseEv EXCEPT !.ev = "error", !.to = SocketEmit(c),
                                           !.name = "Failed to create room"]>>
            /\ UNCHANGED rooms
    /\ UNCHANGED <<users, now, chan, sockets, supabase, pending, accepted, sendLog>>

\* socket.on('send-message'), up to the await of the insert.  seq tells the
\* handler runs at their await apart: the run's place in the order of start.
AuthSendMessage(c, roomId, content) ==
    /\ Idle
    /\ c \in DOMAIN sockets
    /\ pending' = pending \cup {[conn |-> c, room |-> roomId, content |-> content,
                                 user |-> sockets[c].userId, seq |-> Len(sendLog) + 1]}
    /\ emitted' = <<>>
    /\ last' = [BaseAct EXCEPT !.op = "send-message-await", !.conn = c,
                               !.room = roomId, !.content = content]
    /\ UNCHANGED <<chan, sockets, supabase, mainVars, accepted>>

\* socket.on('send-message'), resumed after the await: `if (error) throw
\* error` sends a returned error to the catch block, as a rejection goes; only
\* a stored row is broadcast.
AuthPersistDone(m, outcome) ==
    /\ Idle
    /\ m \in pending
    /\ pending' = pending \ {m}
    /\ emitted' = IF outcome = "ok"
                  THEN <<[BaseEv EXCEPT !.ev = "new-message", !.to = IoTo(m.room),
                                        !.room = m.room, !.user = m.user,
                                        !.content = m.content]>>
                  ELSE <<[BaseEv EXCEPT !.ev = "error",
                                        !.to = SocketEmit(m.conn) \cap DOMAIN sockets,
                                        !.name = "Failed to send message"]>>
    /\ last' = [BaseAct EXCEPT !.op = "send-message", !.conn = m.conn,
                               !.room = m.room, !.content = m.content,
                               !.name = outcome]
    /\ UNCHANGED <<chan, sockets, supabase, mainVars, accepted>>

\* socket.on('disconnect'): the handler updates the user's status row; the
\* transport has removed the socket from every channel.
AuthDisconnect(c) ==
    /\ Idle
    /\ c \in DOMAIN sockets
    /\ chan' = LeaveAll(chan, c)
    /\ sockets' = [d \in DOMAIN sockets \ {c} |-> sockets[d]]
    /\ emitted' = <<>>
    /\ last' = [BaseAct EXCEPT !.op = "disconnect", !.conn = c]
    /\ UNCHANGED <<supabase, pending, mainVars, accepted>>

AuthNext ==
    \/ \E c \in Conns, token \in UserIds \cup {NoConn} : AuthConnect(c, token)
    \/ \E c \in Conns : AuthJoinRooms(c)
    \/ \E c \in Conns, data \in CreatePayloads, stored \in BOOLEAN, id \in RoomIds,
          member \in BOOLEAN : AuthCreateRoom(c, data, stored, id, member)
    \/ \E c \in Conns, r \in RoomIdInputs, content \in Contents :
          /\ Cardinality(pending) < MaxPending
          /\ AuthSendMessage(c, r, content)
          /\ UNCHANGED sendLog
    \/ \E m \in pending, outcome \in PersistOutcomes :
          AuthPersistDone(m, outcome) /\ UNCHANGED sendLog
    \/ \E c \in Conns : AuthDisconnect(c) /\ UNCHANGED sendLog
    \/ Deliver

SpecAuth == AuthInit /\ [][AuthNext]_vars

\* The authenticated server with the runs of its send-message handler
\* logged in order of start, up to MaxInFlight of them: who sent, to which
\* room, the rank of the run's broadcast among the broadcasts (0 while the
\* run is at its await, -1 when it ended in the catch block) and the sockets
\* the broadcast went to.  A socket that disconnects is forgotten by the log.
\* The inputs are few: every handshake carries a token, there is one
\* create-room payload and one message content, and the store numbers the
\* rooms from 0.
MaxInFlight == 2

OrderContent == <<"h", "i">>

OrderPayload == [name |-> "Team", description |-> "desc"]

Delivered(lg) == Cardinality({i \in 1..Len(lg) : lg[i].rank > 0})

OrderNext ==
    \/ \E c \in Conns, token \in UserIds : AuthConnect(c, token)
    \/ \E c \in Conns : AuthJoinRooms(c)
    \/ \E c \in Conns, stored \in BOOLEAN, id \in RoomIds :
          /\ id = Cardinality(DOMAIN rooms)
          /\ AuthCreateRoom(c, OrderPayload, stored, id, TRUE)
    \/ \E c \in Conns, r \in DOMAIN rooms :
          /\ Len(sendLog) < MaxInFlight
          /\ AuthSendMessage(c, r, OrderContent)
          /\ sendLog' = Append(sendLog, [conn |-> c, room |-> r, rank |-> 0, to |-> {}])
    \/ \E m \in pending, outcome \in PersistOutcomes :
          /\ AuthPersistDone(m, outcome)
          /\ sendLog' = [sendLog EXCEPT ![m.seq] =
                            [@ EXCEPT !.rank = IF outcome = "ok"
                                               THEN Delivered(sendLog) + 1 ELSE -1,
                                      !.to = IF outcome = "ok" THEN IoTo(m.room) ELSE {}]]
    \/ \E c \in Conns :
          /\ AuthDisconnect(c)
          /\ sendLog' = [i \in 1..Len(sendLog) |->
                            IF sendLog[i].conn = c
                            THEN [sendLog[i] EXCEPT !.conn = NoConn]
                            ELSE sendLog[i]]
    \/ Deliver

SpecOrder == AuthInit /\ [][OrderNext]_vars

FairSpec == Spec /\ WF_vars(Tick) /\ WF_vars(Deliver)

\* The server of src/server.js with one more create-room payload: a name of
\* white space only, which a client may send as any other string.
WhitespaceName == " "

NamesNext ==
    \/ Next
    \/ \E c \in Conns : CreateRoom(c, WhitespaceName, NoName)

SpecNames == Init /\ [][NamesNext]_vars

\* The server of src/server.js with the history of its new-message broadcasts
\* (room and message id, in emission order) recorded, up to MaxLog of them.
MaxLog == 2

Broadcasts(evs) ==
    [i \in 1..Len(SelectSeq(evs, LAMBDA e : e.ev = "new-message")) |->
        LET e == SelectSeq(evs, LAMBDA x : x.ev = "new-message")[i]
        IN [room |-> e.room, msgId |-> e.msgId]]

LogNext ==
    \/ \E c \in Conns : Connect(c)
    \/ \E c \in Conns : GetRooms(c)
    \/ \E c \in Conns, data \in CreatePayloads : CreateRoom(c, data.name, data.description)
    \/ \E c \in Conns, r \in RoomIdInputs : JoinRoom(c, r)
    \/ \E c \in Conns, r \in RoomIdInputs, content \in Contents :
          /\ Len(accepted) < MaxLog
          /\ SendMessage(c, r, content)
          /\ accepted' = accepted \o Broadcasts(emitted')
          /\ UNCHANGED sendLog
    \/ \E c \in Conns, r \in RoomIdInputs : LeaveRoom(c, r)
    \/ \E c \in Conns : Disconnect(c)
    \/ Tick
    \/ Deliver

SpecLog == Init /\ [][LogNext]_vars

----------------------------------------------------------------------------
\* Reading the last handler's events

\* The positions of the emitted events named ev.
EventsOf(ev) == {i \in 1..Len(emitted) : emitted[i].ev = ev}

\* The connections that receive an event named ev.
Receivers(ev) == UNION {emitted[i].to : i \in EventsOf(ev)}

\* The handler that ran last handled the event op.
Handled(op) == last.op = op

\* String.prototype.trim on a sequence of characters.
RECURSIVE TrimLeft(_)
TrimLeft(x) == IF x # <<>> /\ Head(x) = " " THEN TrimLeft(Tail(x)) ELSE x

RECURSIVE TrimRight(_)
TrimRight(x) ==
    IF x # <<>> /\ x[Len(x)] = " " THEN TrimRight(SubSeq(x, 1, Len(x) - 1)) ELSE x

Trim(x) == TrimRight(TrimLeft(x))

----------------------------------------------------------------------------
\* C1: an accepted send-message to room R (R exists, the sender is in R's
\* member set) emits exactly one new-message, delivered to exactly the
\* connections in R's member set room.users: every member, the sender
\* included, and nobody else.
C1_DeliveredToExactlyMembers ==
    (/\ Handled("send-message")
     /\ last.room \in DOMAIN rooms
     /\ last.conn \in rooms[last.room].users)
    => /\ Cardinality(EventsOf("new-message")) = 1
       /\ Receivers("new-message") = rooms[last.room].users

\* C2: a disconnect of c emits exactly one user-left per room c was a member
\* of, delivered to exactly that room's remaining members, carrying the
\* member count after the removal, and nothing else to anybody: no event to
\* c, none to a connection that shared no room with c.
C2_DisconnectNotifiesRemainingMembers ==
    [][last'.op = "disconnect" =>
        LET c == last'.conn
            Rs == {r \in DOMAIN rooms : c \in rooms[r].users}
        IN /\ Len(emitted') = Cardinality(Rs)
           /\ \A r \in Rs :
                \E i \in 1..Len(emitted') :
                    /\ emitted'[i].ev = "user-left"
                    /\ emitted'[i].room = r
                    /\ emitted'[i].to = rooms'[r].users
                    /\ emitted'[i].userCount = Cardinality(rooms'[r].users)
           /\ \A i \in 1..Len(emitted') :
                /\ c \notin emitted'[i].to
                /\ emitted'[i].to \subseteq UNION {rooms[r].users : r \in Rs}
    ]_vars

\* C3 (local-mode server of src/server/index.js, where a room is its
\* channel): a send-message whose sender is not subscribed to the target
\* room, which includes every room id that names no room, is rejected: no
\* new-message reaches any connection and the sender receives an error.
C3_NonMemberSendRejected ==
    (/\ Handled("send-message")
     /\ last.conn \notin chan[last.room])
    => /\ Receivers("new-message") = {}
       /\ last.conn \in Receivers("error")

\* C4: a send-message by a member of an existing room whose content is empty
\* after trimming is rejected: no new-message is emitted.
C4_BlankContentRejected ==
    (/\ Handled("send-message")
     /\ last.room \in DOMAIN rooms
     /\ last.conn \in rooms[last.room].users
     /\ Trim(last.content) = <<>>)
    => EventsOf("new-message") = {}

\* C5: join-room and leave-room by connection c on an existing room R are
\* idempotent on R's member set: after a join c is a member, after a leave
\* it is not, no other member is touched, and a join by a member or a leave
\* by a non-member leaves the set as it was; so c counts for exactly 1 after
\* a join and for 0 after a leave.
C5_JoinLeaveIdempotent ==
    [][\A r \in DOMAIN rooms :
        LET c == last'.conn
            before == rooms[r].users
            after == rooms'[r].users
        IN /\ (last'.op = "join-room" /\ last'.room = r) =>
                /\ Cardinality(after \cap {c}) = 1
                /\ after \ {c} = before \ {c}
                /\ c \in before => after = before
           /\ (last'.op = "leave-room" /\ last'.room = r) =>
                /\ Cardinality(after \cap {c}) = 0
                /\ after \ {c} = before \ {c}
                /\ c \notin before => after = before
    ]_vars

\* A join-room on an existing room has run, in a room with another member.
C5_Witness ==
    /\ Handled("join-room")
    /\ last.room \in DOMAIN rooms
    /\ Cardinality(rooms[last.room].users) = 2

\* The member count the rooms-list of room table rs reports for room r.
ListedCount(rs, r) ==
    LET i == CHOOSE j \in 1..Len(RoomList(rs)) : RoomList(rs)[j].id = r
    IN RoomList(rs)[i].userCount

\* C6: the member count rooms-list reports for a room is the size of the
\* room's member set: the list names every room with its current size; it
\* is 1 right after create-room, the room listed under the name given; it
\* rises by 1 when a connection that is not a member joins, and falls by 1
\* when a member leaves, user-left carrying the new size.
C6_ListedCountIsMemberCount ==
    [][/\ last'.op = "get-rooms" =>
            \E i \in 1..Len(emitted') :
                /\ emitted'[i].ev = "rooms-list"
                /\ {emitted'[i].list[j].id : j \in 1..Len(emitted'[i].list)} = DOMAIN rooms'
                /\ \A j \in 1..Len(emitted'[i].list) :
                      emitted'[i].list[j].userCount =
                          Cardinality(rooms'[emitted'[i].list[j].id].users)
       /\ last'.op = "create-room" =>
            /\ last'.room \in DOMAIN rooms'
            /\ ListedCount(rooms', last'.room) = 1
            /\ \E j \in 1..Len(RoomList(rooms')) :
                  /\ RoomList(rooms')[j].id = last'.room
                  /\ last'.name \notin {NoName, ""} => RoomList(rooms')[j].name = last'.name
       /\ \A r \in DOMAIN rooms :
            /\ (last'.op = "join-room" /\ last'.room = r /\ last'.conn \notin rooms[r].users)
                  => ListedCount(rooms', r) = ListedCount(rooms, r) + 1
            /\ (last'.op = "leave-room" /\ last'.room = r /\ last'.conn \in rooms[r].users)
                  => /\ ListedCount(rooms', r) = ListedCount(rooms, r) - 1
                     /\ \E i \in 1..Len(emitted') :
                           /\ emitted'[i].ev = "user-left"
                           /\ emitted'[i].userCount = ListedCount(rooms', r)
    ]_vars

\* A rooms-list that reports a room of two members.
C6_Witness ==
    /\ Handled("get-rooms")
    /\ \E i \in EventsOf("rooms-list") :
          \E j \in 1..Len(emitted[i].list) : emitted[i].list[j].userCount = 2

\* C7: a room is never deleted while its grace period runs, nor after a
\* connection joined it again: every room of the room store, empty or not,
\* is in the store after every step, is listed, and a join-room on its id
\* succeeds.
C7_EmptyRoomKept ==
    [][/\ DOMAIN rooms \subseteq DOMAIN rooms'
       /\ LET list == RoomList(rooms')
          IN DOMAIN rooms \subseteq {list[j].id : j \in 1..Len(list)}
       /\ (last'.op = "join-room" /\ last'.room \in DOMAIN rooms) =>
            /\ last'.conn \in rooms'[last'.room].users
            /\ \E i \in 1..Len(emitted') :
                  /\ emitted'[i].ev = "room-joined"
                  /\ emitted'[i].room = last'.room
                  /\ emitted'[i].to = {last'.conn}
    ]_vars

\* A connection has joined a room that was empty: the room-joined it got
\* reports it as the only member.
C7_Witness ==
    /\ Handled("join-room")
    /\ \E i \in EventsOf("room-joined") :
          /\ emitted[i].userCount = 1
          /\ emitted[i].to = {last.conn}
          /\ emitted[i].room \in DOMAIN rooms

\* C8: a room whose member set is empty is eventually deleted from the room
\* store, unless a connection joins it again.
C8_EmptyRoomEventuallyDeleted ==
    \A r \in RoomIds :
        (r \in DOMAIN rooms /\ rooms[r].users = {})
            ~> (r \notin DOMAIN rooms \/ rooms[r].users # {})

\* C9: the id of a room that create-room creates differs from the id of
\* every room created before (rooms are never removed, so these are the rooms
\* of the store): create-room replaces no room.
C9_FreshRoomId ==
    [][last'.op = "create-room" => last'.room \notin DOMAIN rooms]_vars

\* C10: every connection id in a room's member set is in the connection
\* registry; a connection that disconnected is in no member set.
C10_MembersAreRegistered ==
    \A r \in DOMAIN rooms : rooms[r].users \subseteq DOMAIN users

\* A connection that was a member of a room has disconnected (the handler
\* emitted a user-left for the room) while the room's store is not empty.
C10_Witness ==
    /\ Handled("disconnect")
    /\ EventsOf("user-left") # {}
    /\ last.conn \notin DOMAIN users
    /\ \E r \in DOMAIN rooms : rooms[r].users # {}

\* C11: a join-room, leave-room or send-message that names no existing room,
\* a send-message by a non-member, and a send-message of blank content each
\* emit an error event to the originating connection; an error event never
\* reaches a connection other than the one whose action failed.
C11_FailuresReportedToOriginator ==
    LET unknownRoom == /\ last.op \in {"join-room", "leave-room", "send-message"}
                       /\ last.room \notin DOMAIN rooms
        notMember == /\ Handled("send-message")
                     /\ last.room \in DOMAIN rooms
                     /\ last.conn \notin rooms[last.room].users
        blank == /\ Handled("send-message")
                 /\ last.room \in DOMAIN rooms
                 /\ last.conn \in rooms[last.room].users
                 /\ Trim(last.content) = <<>>
    IN /\ (unknownRoom \/ notMember \/ blank) => last.conn \in Receivers("error")
       /\ Receivers("error") \subseteq {last.conn}

\* C13: a create-room by c adds one room to the store, a room that was not
\* there, with member set {c}; it emits exactly one event, a room-created to
\* c alone; and the member set of every room that existed is unchanged.
C13_CreateRoomAddsOneRoom ==
    [][last'.op = "create-room" =>
        LET c == last'.conn
            id == last'.room
        IN /\ id \notin DOMAIN rooms
           /\ DOMAIN rooms' = DOMAIN rooms \cup {id}
           /\ rooms'[id].users = {c}
           /\ \A r \in DOMAIN rooms : rooms'[r].users = rooms[r].users
           /\ Len(emitted') = 1
           /\ emitted'[1].ev = "room-created"
           /\ emitted'[1].to = {c}
    ]_vars

\* C14: a join-room by c on an existing room R emits room-joined to c only
\* and user-joined to exactly the members of R other than c; both carry the
\* size of R's member set after the join.
C14_JoinNotifiesOtherMembers ==
    (Handled("join-room") /\ last.room \in DOMAIN rooms) =>
        LET c == last.conn
            members == rooms[last.room].users
        IN /\ Cardinality(EventsOf("room-joined")) = 1
           /\ Cardinality(EventsOf("user-joined")) = 1
           /\ Receivers("room-joined") = {c}
           /\ Receivers("user-joined") = members \ {c}
           /\ \A i \in EventsOf("room-joined") \cup EventsOf("user-joined") :
                 emitted[i].userCount = Cardinality(members)

\* C19: a leave-room by a connection c that is not a member of the room it
\* names changes no state: every room's member set, and c's registry entry
\* with its currentRoom, are as before.
C19_LeaveByNonMemberIsNoOp ==
    [][(/\ last'.op = "leave-room"
        /\ (last'.room \in DOMAIN rooms => last'.conn \notin rooms[last'.room].users))
       => /\ rooms' = rooms
          /\ users' = users
    ]_vars

\* C20: a user-left naming c and room R is emitted only by an action that
\* removed c from R's member set, to exactly R's remaining members, with R's
\* new member count; a leave-room by a non-member emits no user-left.
C20_UserLeftOnlyOnRemoval ==
    [][\A i \in 1..Len(emitted') :
          emitted'[i].ev = "user-left" =>
              LET c == emitted'[i].user
                  r == emitted'[i].room
              IN /\ r \in DOMAIN rooms
                 /\ c \in rooms[r].users
                 /\ r \in DOMAIN rooms'
                 /\ c \notin rooms'[r].users
                 /\ emitted'[i].to = rooms'[r].users
                 /\ emitted'[i].userCount = Cardinality(rooms'[r].users)
    ]_vars

\* C16: get-rooms emits one rooms-list, to the requester alone; the list
\* names every room of the store exactly once, in ascending order of
\* creation; an entry carries the room's id, name, description, member count
\* and creation time, and no field that holds the ids of its members.
C16_RoomsListOrderedSummaries ==
    Handled("get-rooms") =>
        /\ Len(emitted) = 1
        /\ emitted[1].ev = "rooms-list"
        /\ emitted[1].to = {last.conn}
        /\ LET list == emitted[1].list
           IN /\ {list[j].id : j \in 1..Len(list)} = DOMAIN rooms
              /\ Len(list) = Cardinality(DOMAIN rooms)
              /\ \A j, k \in 1..Len(list) :
                    j < k => list[j].createdAt <= list[k].createdAt
              /\ \A j \in 1..Len(list) :
                    /\ DOMAIN list[j] = {"id", "name", "description", "userCount", "createdAt"}
                    /\ list[j].name = rooms[list[j].id].name
                    /\ list[j].description = rooms[list[j].id].description
                    /\ list[j].userCount = Cardinality(rooms[list[j].id].users)

\* A rooms-list of two rooms, one of them with a member.
C16_Witness ==
    /\ Handled("get-rooms")
    /\ \E i \in EventsOf("rooms-list") :
          /\ Len(emitted[i].list) = 2
          /\ \E j \in 1..2 : emitted[i].list[j].userCount > 0

\* C18: a create-room whose name is absent, empty or of white space only
\* creates a room named "New Room" and reports it; a create-room with any
\* other name creates a room with exactly that name.
C18_BlankNameDefaults ==
    Handled("create-room") =>
        /\ EventsOf("room-created") # {}
        /\ EventsOf("error") = {}
        /\ \A i \in EventsOf("room-created") :
              /\ emitted[i].room \in DOMAIN rooms
              /\ rooms[emitted[i].room].name =
                    IF last.name \in {NoName, "", WhitespaceName} THEN "New Room" ELSE last.name
              /\ emitted[i].name = rooms[emitted[i].room].name

\* The message history a room-joined payload carries; the payload of
\* src/server.js has the fields room and users only.
HistoryOf(e) == IF "history" \in DOMAIN e THEN e.history ELSE <<>>

\* C15: the room-joined event sent to a joiner carries the messages accepted
\* for that room so far, in the order they were accepted.
C15_RoomJoinedCarriesHistory ==
    Handled("join-room") =>
        \A i \in EventsOf("room-joined") :
            HistoryOf(emitted[i]) =
                LET log == SelectSeq(accepted, LAMBDA m : m.room = emitted[i].room)
                IN [j \in 1..Len(log) |-> log[j].msgId]

\* C17: every accepted message has a message id distinct from the id of every
\* other message accepted so far.
C17_MessageIdsUnique ==
    \A i, j \in 1..Len(accepted) : i # j => accepted[i].msgId # accepted[j].msgId

\* C12: in the servers that call the external store, a send-message whose
\* persistence call has completed (stored, returned an error, or thrown) is
\* followed by the new-message broadcast and by no error event.
C12_PersistFailureKeepsBroadcast ==
    (Handled("send-message") /\ last.name \in PersistOutcomes) =>
        /\ EventsOf("new-message") # {}
        /\ EventsOf("error") = {}

\* C25: for every room id, the connected sockets subscribed to the transport
\* channel of that id are the room's recorded member set; a channel whose id
\* names no room has no subscriber.
C25_ChannelIsMemberSet ==
    \A r \in ChanIds :
        chan[r] = IF r \in DOMAIN rooms THEN rooms[r].users ELSE {}

\* C26: a registered connection's currentRoom, when it is not null, names an
\* existing room whose member set contains the connection.
C26_CurrentRoomIsJoinedRoom ==
    \A c \in DOMAIN users :
        users[c].currentRoom # NoRoom =>
            /\ users[c].currentRoom \in DOMAIN rooms
            /\ c \in rooms[users[c].currentRoom].users

\* The events of a room that go to its members.
RoomEvents == {"new-message", "user-joined", "user-left"}

\* C24: a join-room or create-room for room B by a connection leaves the
\* connection in the member set (and in the channel) of every other room A it
\* is a member of; and every new-message, user-joined and user-left of a room
\* reaches every connection that is a member of the room before and after the
\* step, except that user-joined and user-left do not go to the connection
\* they are about.
C24_MemberOfSeveralRooms ==
    [][/\ last'.op \in {"join-room", "create-room"} =>
            \A A \in DOMAIN rooms \ {last'.room} :
                last'.conn \in rooms[A].users =>
                    /\ A \in DOMAIN rooms'
                    /\ last'.conn \in rooms'[A].users
                    /\ last'.conn \in chan'[A]
       /\ \A i \in 1..Len(emitted') :
            LET e == emitted'[i]
            IN (e.ev \in RoomEvents /\ e.room \in DOMAIN rooms /\ e.room \in DOMAIN rooms') =>
                  \A c \in rooms[e.room].users \cap rooms'[e.room].users :
                      (e.ev = "new-message" \/ c # last'.conn) => c \in e.to
      ]_vars

\* A connection that is a member of two rooms, whose currentRoom names one of
\* them, receives a new-message of the other.
C24_Witness ==
    /\ Handled("send-message")
    /\ \E i \in EventsOf("new-message"), c \in DOMAIN users :
          /\ c \in emitted[i].to
          /\ c # last.conn
          /\ c \in rooms[emitted[i].room].users
          /\ users[c].currentRoom \in DOMAIN rooms \ {emitted[i].room}
          /\ c \in rooms[users[c].currentRoom].users

\* C21: when a connection sends two messages to one room, a socket that
\* receives the new-message of both receives that of the first sent before
\* that of the second.
C21_SendOrderKept ==
    \A i, j \in 1..Len(sendLog) :
        (/\ i < j
         /\ sendLog[i].conn # NoConn
         /\ sendLog[i].conn = sendLog[j].conn
         /\ sendLog[i].room = sendLog[j].room
         /\ sendLog[i].rank > 0
         /\ sendLog[j].rank > 0)
        => \A c \in sendLog[i].to \cap sendLog[j].to : sendLog[i].rank < sendLog[j].rank

\* C22: the sender identity a delivered new-message carries is the identity
\* the server holds for the connection that sent it, whatever the payload of
\* the send-message says.  Stated of the handler runs that broadcast without
\* an await, where the identity held at the broadcast is the one held at
\* send time.
C22_SenderIsConnectionIdentity ==
    (Handled("send-message") /\ last.name \notin PersistOutcomes) =>
        \A i \in EventsOf("new-message") :
            /\ last.conn \in DOMAIN users => emitted[i].user = users[last.conn].id
            /\ last.conn \in DOMAIN sockets => emitted[i].user = sockets[last.conn].userId

\* C23: create-room joins the creator to the room it creates: the connection
\* that receives room-created is then a subscriber of the room's channel, the
\* set every later new-message of the room is broadcast to, so that it needs
\* no join of its own to receive the room's messages.
C23_CreatorIsSubscribed ==
    Handled("create-room") =>
        \A i \in EventsOf("room-created") :
            /\ emitted[i].to = {last.conn}
            /\ last.conn \in chan[emitted[i].room]

====
